---------------------------- MODULE Spec2Model ----------------------------
(***************************************************************************)
(* The asset-library data source of package/husdplugins/datasources/       *)
(* library.py: the Item record, the Model (catalog) class and the          *)
(* AssetLibrary adapter that the host's asset gallery calls.               *)
(*                                                                         *)
(* Conventions.  A Python str is a TLA+ string; a bytes value b"..." is    *)
(* the string "b:..." so that b"" and "" stay different, as they are in    *)
(* Python.  A dict is a function; the live mapping is kept with its key    *)
(* set only (the insertion order of a dict is not modelled).  A list is a  *)
(* sequence.  A method is an operator from the object (a record `self`)    *)
(* and its arguments to [self, ret, raised]: the object afterwards, the    *)
(* returned value, and the name of the exception that ended the call       *)
(* ("" when it returned).                                                  *)
(***************************************************************************)
EXTENDS Integers, Sequences, FiniteSets, TLC

VARIABLES
    identifier,     \* Model.identifier
    items,          \* Model.items: id -> Item (live)
    items_updated,  \* Model.items_updated: set of ids
    items_deleted,  \* Model.items_deleted: id -> Item (soft-deleted)
    tags,           \* Model.tags: list of tag strings
    env,            \* the host's environment variables: name -> text
    before,         \* history: the Model object as the last call found it
    last,           \* history: the last call, its arguments and its result
    prev,           \* history: the call before the last
    polled,         \* history: ids for which set_data returned True since the last poll
    steps,          \* number of calls made so far
    user_info,      \* the layout node's "userinfo" parameter: the dict its JSON text denotes
    user_info_before \* history: user_info as the last call found it

vars == <<identifier, items, items_updated, items_deleted, tags, env, before, last, prev, polled, steps,
          user_info, user_info_before>>

-----------------------------------------------------------------------------
(* Bounds of the exploration *)

MaxSteps == 3
MaxHostCalls == 2
MaxBatch == 2

None == "None"
EmptyDict == [k \in {} |-> ""]

\* Item ids, tags and field values the calls are made with.
ItemIds == {"id_0", "a1"}
TagNames == {"Tag 0", "Tag 1", "red"}

-----------------------------------------------------------------------------
(* class Item *)

Item(id) ==
    [id |-> id,
     parent |-> "",
     children |-> EmptyDict,
     label |-> "",
     file_path |-> "",
     thumbnail_file_path |-> "",
     thumbnail_file_content |-> "b:",
     creation_date |-> 0,
     modification_date |-> 0,
     meta_data |-> EmptyDict,
     blind_data |-> "",
     tags |-> <<>>,
     color |-> "",
     star |-> FALSE]

\* The attributes of an Item, in declaration order.
ItemFields ==
    <<"id", "parent", "children", "label", "file_path", "thumbnail_file_path",
      "thumbnail_file_content", "creation_date", "modification_date", "meta_data",
      "blind_data", "tags", "color", "star">>

\* x in list
InList(x, list) == \E i \in DOMAIN list : list[i] = x

\* list.remove(x) on a list that holds x: drops the first occurrence
RECURSIVE ListRemove(_, _)
ListRemove(list, x) ==
    IF list = <<>> THEN <<>>
    ELSE IF Head(list) = x THEN Tail(list)
    ELSE <<Head(list)>> \o ListRemove(Tail(list), x)

\* d.pop(key, None) leaves every other key
DictPop(d, key) == [k \in (DOMAIN d) \ {key} |-> d[k]]

\* d[key] = value
DictSet(d, key, value) == [k \in (DOMAIN d) \cup {key} |-> IF k = key THEN value ELSE d[k]]

-----------------------------------------------------------------------------
(* class Model *)

\* Model.__init__
ModelInit(ident) ==
    [identifier |-> ident,
     items |-> EmptyDict,
     items_updated |-> {},
     items_deleted |-> EmptyDict,
     tags |-> <<>>]

Returned(self, ret) == [self |-> self, ret |-> ret, raised |-> ""]
Raised(self, exc) == [self |-> self, ret |-> None, raised |-> exc]

get_tags(self) == self.tags

\* add_tag without the membership test
add_tag_always(self, tag) == Returned([self EXCEPT !.tags = Append(@, tag)], TRUE)

add_tag(self, tag) ==
    IF ~InList(tag, self.tags)
    THEN Returned([self EXCEPT !.tags = Append(@, tag)], TRUE)
    ELSE Returned(self, FALSE)

\* delete_tag with the test of delete_if_assigned lost: an assigned tag is
\* never refused.
delete_tag_unguarded(self, tag, delete_if_assigned) ==
    LET tag_assigned == \E k \in DOMAIN self.items : InList(tag, self.items[k].tags)
        tag_exists == InList(tag, self.tags)
    IN  IF tag_assigned
        THEN Raised(self, "ValueError")
        ELSE IF tag_exists
        THEN Returned([self EXCEPT !.tags = ListRemove(@, tag)], TRUE)
        ELSE Returned(self, FALSE)

\* `item.tags.remove(item)` asks the tag list to remove the Item itself; no
\* element of a list of strings equals an Item, so list.remove raises
\* ValueError at the first item that has the tag, before anything changed.
delete_tag(self, tag, delete_if_assigned) ==
    LET tag_assigned == \E k \in DOMAIN self.items : InList(tag, self.items[k].tags)
        tag_exists == InList(tag, self.tags)
    IN  IF ~delete_if_assigned /\ tag_assigned
        THEN Returned(self, FALSE)
        ELSE IF tag_assigned
        THEN Raised(self, "ValueError")
        ELSE IF tag_exists
        THEN Returned([self EXCEPT !.tags = ListRemove(@, tag)], tag_assigned \/ tag_exists)
        ELSE Returned(self, tag_assigned \/ tag_exists)

\* tuple(self.items.keys())
get_item_ids(self) == DOMAIN self.items

\* get_item_updated_ids without the clear()
get_item_updated_ids_unclear(self, order) == Returned(self, order)

\* The order of tuple(a set) is whatever the set iterates in: `order` is one
\* of its enumerations.
get_item_updated_ids(self, order) ==
    Returned([self EXCEPT !.items_updated = {}], order)

\* set_item_mark_deleted that pops the item and forgets it
set_item_mark_deleted_dropped(self, item_id) ==
    IF item_id \in DOMAIN self.items
    THEN Returned([self EXCEPT !.items = DictPop(@, item_id)], TRUE)
    ELSE Returned(self, FALSE)

set_item_mark_deleted(self, item_id) ==
    IF item_id \in DOMAIN self.items
    THEN Returned([self EXCEPT !.items = DictPop(@, item_id),
                               !.items_deleted = DictSet(@, item_id, self.items[item_id])],
                  TRUE)
    ELSE Returned(self, FALSE)

set_item_mark_undeleted(self, item_id) ==
    IF item_id \in DOMAIN self.items_deleted
    THEN Returned([self EXCEPT !.items_deleted = DictPop(@, item_id),
                               !.items = DictSet(@, item_id, self.items_deleted[item_id])],
                  TRUE)
    ELSE Returned(self, FALSE)

RECURSIVE AddTags(_, _)
AddTags(self, list) ==
    IF list = <<>> THEN self
    ELSE AddTags(add_tag(self, Head(list)).self, Tail(list))

\* add_item that stores the item and registers none of its tags
add_item_untagged(self, item) ==
    Returned([self EXCEPT !.items = DictSet(@, item.id, item)], None)

\* add_item that keeps the item already stored under the id
add_item_keeps(self, item) ==
    IF item.id \in DOMAIN self.items
    THEN Returned(AddTags(self, item.tags), None)
    ELSE Returned(AddTags([self EXCEPT !.items = DictSet(@, item.id, item)], item.tags), None)

add_item(self, item) ==
    Returned(AddTags([self EXCEPT !.items = DictSet(@, item.id, item)], item.tags), None)

\* getattr(item, role, None) with item = self.items.get(item_id)
GetAttr(self, item_id, role) ==
    IF item_id \in DOMAIN self.items /\ role \in DOMAIN self.items[item_id]
    THEN self.items[item_id][role]
    ELSE None

\* set_data that sets the attribute and leaves items_updated alone
set_data_unmarked(self, item_id, role, value) ==
    IF item_id \notin DOMAIN self.items
    THEN Returned(self, FALSE)
    ELSE IF GetAttr(self, item_id, role) = value
    THEN Returned(self, FALSE)
    ELSE Returned([self EXCEPT !.items[item_id][role] = value], TRUE)

\* set_data that marks the item before it compares the values
set_data_marks_first(self, item_id, role, value) ==
    IF item_id \notin DOMAIN self.items
    THEN Returned(self, FALSE)
    ELSE IF GetAttr(self, item_id, role) = value
    THEN Returned([self EXCEPT !.items_updated = @ \cup {item_id}], FALSE)
    ELSE Returned([self EXCEPT !.items_updated = @ \cup {item_id},
                               !.items[item_id][role] = value],
                  TRUE)

set_data(self, item_id, role, value) ==
    IF item_id \notin DOMAIN self.items
    THEN Returned(self, FALSE)
    ELSE IF GetAttr(self, item_id, role) = value
    THEN Returned(self, FALSE)
    ELSE Returned([self EXCEPT !.items_updated = @ \cup {item_id},
                               !.items[item_id][role] = value],
                  TRUE)

\* Model.get_data.  `file` is what the file system holds at the item's
\* thumbnail_file_path: None when os.path.isfile says no, else the text that
\* reading the file gives.  The lazily read content is cached on the item.
\* What open(path, "r").read() gives for a file that is not text in the
\* locale's encoding: UnicodeDecodeError.
Undecodable == "UnicodeDecodeError"

\* get_data that takes every read of an item for a change of it
get_data_touching(self, item_id, role, file) ==
    IF item_id \in DOMAIN self.items
    THEN Returned([self EXCEPT !.items_updated = @ \cup {item_id}], GetAttr(self, item_id, role))
    ELSE Returned(self, GetAttr(self, item_id, role))

get_data(self, item_id, role, file) ==
    LET data == GetAttr(self, item_id, role)
        empty == data = None \/ data = "b:" \/ data = ""
        thumbnail_file_path == GetAttr(self, item_id, "thumbnail_file_path")
    IN  IF role = "thumbnail_file_content" /\ empty
        THEN IF thumbnail_file_path \notin {None, ""} /\ file # None
             THEN IF file = Undecodable
                  THEN Raised(self, "UnicodeDecodeError")
                  ELSE Returned([self EXCEPT !.items[item_id].thumbnail_file_content = file],
                                file)
             ELSE Returned(self, "b:")
        ELSE Returned(self, data)

\* populate_mock_data: range(5) tags, range(10) items
MockTagCount == 5
MockItemCount == 10
MockColors == <<"red", "green", "blue">>

\* time.mktime(datetime.datetime.now().timetuple()) at the time of the call
\* (a float with no fraction; kept as the integer)
Clock == {1700000000}

MockItem(idx, now) ==
    [Item("id_" \o ToString(idx)) EXCEPT
        !.label = "Item Label " \o ToString(idx),
        !.file_path = "/some/path/" \o ToString(idx) \o ".usd",
        !.thumbnail_file_path = "/some/path/" \o ToString(idx) \o ".png",
        !.creation_date = now,
        !.modification_date = now,
        !.meta_data = [keyA |-> "valueA", keyB |-> "valueB"],
        !.tags = <<"Tag 0", "Item Tag " \o ToString(idx)>>,
        !.color = MockColors[(idx % 3) + 1],
        !.star = (idx % 3 = 0)]

\* The first occurrence of each element of a list, in order.
FirstOccurrences(list) ==
    LET keep == {i \in DOMAIN list : \A j \in 1..(i - 1) : list[j] # list[i]}
        Nth(n) == CHOOSE i \in keep : Cardinality({j \in keep : j < i}) = n - 1
    IN  [n \in 1..Cardinality(keep) |-> list[Nth(n)]]

\* The vocabulary after add_tag was called with each element of `calls` in
\* turn: the ones not yet registered are appended once, in call order.
AfterAddTagCalls(tag_list, calls) ==
    tag_list \o FirstOccurrences(SelectSeq(calls, LAMBDA t : ~InList(t, tag_list)))

\* The two loops of populate_mock_data, written as what they leave behind:
\* add_tag(f"Tag {idx}") for idx in range(5), then add_item(item idx) for idx
\* in range(10), each of which stores the item and calls add_tag for its two
\* tags.
MockTagCalls(now) ==
    [i \in 1..MockTagCount |-> "Tag " \o ToString(i - 1)]
    \o [i \in 1..(2 * MockItemCount) |-> MockItem((i - 1) \div 2, now).tags[((i - 1) % 2) + 1]]

MockIds == {"id_" \o ToString(idx) : idx \in 0..(MockItemCount - 1)}

populate_mock_data(self, now) ==
    [self EXCEPT
        !.tags = AfterAddTagCalls(@, MockTagCalls(now)),
        !.items = [k \in (DOMAIN @) \cup MockIds |->
                      IF k \in MockIds
                      THEN MockItem(CHOOSE idx \in 0..(MockItemCount - 1) :
                                        k = "id_" \o ToString(idx), now)
                      ELSE @[k]]]

-----------------------------------------------------------------------------
(* Text, json.dumps and json.loads *)

(***************************************************************************)
(* A text is a sequence of atoms.  An atom is the double quote, the        *)
(* backslash, the three-pipe sentinel "|||", one of JSON's structural      *)
(* atoms as json.dumps writes them, or a chunk: a run of other characters, *)
(* which holds no quote, no backslash and no three pipes in a row.         *)
(* str.replace between the quote and the sentinel then acts atom by atom.  *)
(***************************************************************************)
Quote == "\""
Backslash == "\\"
Sentinel == "|||"

\* The atoms of a str value: the strings of the model that hold a quote are
\* listed; every other one is a single chunk.
Atoms(str) ==
    CASE str = "" -> <<>>
      [] str = "6\" pipe" -> <<"6", Quote, " pipe">>
      [] OTHER -> <<str>>

RECURSIVE Flatten(_)
Flatten(lists) ==
    IF lists = <<>> THEN <<>> ELSE Head(lists) \o Flatten(Tail(lists))

\* parts joined by a separator atom
RECURSIVE Join(_, _)
Join(parts, sep) ==
    IF parts = <<>> THEN <<>>
    ELSE IF Len(parts) = 1 THEN parts[1]
    ELSE parts[1] \o <<sep>> \o Join(Tail(parts), sep)

\* text.replace(old, new) for single atoms
Replace(text, old, new) == [i \in DOMAIN text |-> IF text[i] = old THEN new ELSE text[i]]

\* json.dumps of a str: quoted, with quote and backslash escaped
DumpStr(str) ==
    <<Quote>>
    \o Flatten([i \in DOMAIN Atoms(str) |->
                  IF Atoms(str)[i] \in {Quote, Backslash}
                  THEN <<Backslash, Atoms(str)[i]>>
                  ELSE <<Atoms(str)[i]>>])
    \o <<Quote>>

DumpInt(n) == <<ToString(n)>>
DumpBool(b) == <<IF b THEN "true" ELSE "false">>
DumpList(list) == <<"[">> \o Join([i \in DOMAIN list |-> DumpStr(list[i])], ", ") \o <<"]">>

\* The keys of a dict in a fixed order (the insertion order is not modelled).
KeyOrder == <<"keyA", "keyB">>
IdOrder ==
    [i \in 1..MockItemCount |-> "id_" \o ToString(i - 1)] \o <<"a1">>
Keys(d, order) == SelectSeq(order, LAMBDA k : k \in DOMAIN d)

\* json.dumps of a dict of str to str
DumpDict(d) ==
    <<"{">>
    \o Join([i \in DOMAIN Keys(d, KeyOrder) |->
                DumpStr(Keys(d, KeyOrder)[i]) \o <<": ">> \o DumpStr(d[Keys(d, KeyOrder)[i]])],
            ", ")
    \o <<"}">>

\* bytes values: json.dumps raises TypeError on them
Bytes == {"b:", "b:x"}

\* json.dumps of item.__dict__ without 'thumbnail_file_content'
DumpItem(item) ==
    <<"{">>
    \o DumpStr("id") \o <<": ">> \o DumpStr(item.id) \o <<", ">>
    \o DumpStr("parent") \o <<": ">> \o DumpStr(item.parent) \o <<", ">>
    \o DumpStr("children") \o <<": ">> \o DumpDict(item.children) \o <<", ">>
    \o DumpStr("label") \o <<": ">> \o DumpStr(item.label) \o <<", ">>
    \o DumpStr("file_path") \o <<": ">> \o DumpStr(item.file_path) \o <<", ">>
    \o DumpStr("thumbnail_file_path") \o <<": ">> \o DumpStr(item.thumbnail_file_path) \o <<", ">>
    \o DumpStr("creation_date") \o <<": ">> \o DumpInt(item.creation_date) \o <<", ">>
    \o DumpStr("modification_date") \o <<": ">> \o DumpInt(item.modification_date) \o <<", ">>
    \o DumpStr("meta_data") \o <<": ">> \o DumpDict(item.meta_data) \o <<", ">>
    \o DumpStr("blind_data") \o <<": ">> \o DumpStr(item.blind_data) \o <<", ">>
    \o DumpStr("tags") \o <<": ">> \o DumpList(item.tags) \o <<", ">>
    \o DumpStr("color") \o <<": ">> \o DumpStr(item.color) \o <<", ">>
    \o DumpStr("star") \o <<": ">> \o DumpBool(item.star)
    \o <<"}">>

\* json.dumps({"identifier": ..., "items": {...}, "tags": [...]})
json_dumps(self) ==
    <<"{">>
    \o DumpStr("identifier") \o <<": ">> \o DumpStr(self.identifier) \o <<", ">>
    \o DumpStr("items") \o <<": ", "{">>
    \o Join([i \in DOMAIN Keys(self.items, IdOrder) |->
                DumpStr(Keys(self.items, IdOrder)[i]) \o <<": ">>
                \o DumpItem(self.items[Keys(self.items, IdOrder)[i]])],
            ", ")
    \o <<"}", ", ">>
    \o DumpStr("tags") \o <<": ">> \o DumpList(self.tags)
    \o <<"}">>

\* The number atoms json.loads meets: the dates of the model.
NumberAtoms == {ToString(n) : n \in {0, 7} \cup Clock}

Parsed(kind, rest) == [ok |-> TRUE, kind |-> kind, rest |-> rest]
NotParsed == [ok |-> FALSE, kind |-> "", rest |-> <<>>]

\* After the opening quote of a string: up to its closing quote.
RECURSIVE ParseChars(_)
ParseChars(text) ==
    IF text = <<>> THEN NotParsed
    ELSE IF Head(text) = Quote THEN Parsed("str", Tail(text))
    ELSE IF Head(text) = Backslash
    THEN IF Len(text) >= 2 /\ text[2] \in {Quote, Backslash}
         THEN ParseChars(Tail(Tail(text)))
         ELSE NotParsed
    ELSE ParseChars(Tail(text))

RECURSIVE ParseValue(_)
RECURSIVE ParseMembers(_)
RECURSIVE ParseElements(_)

\* After "{" or ", " in an object: a quoted key, ": ", a value, then ", " or "}".
ParseMembers(text) ==
    IF text = <<>> \/ Head(text) # Quote THEN NotParsed
    ELSE LET key == ParseChars(Tail(text))
         IN  IF ~key.ok \/ key.rest = <<>> \/ Head(key.rest) # ": " THEN NotParsed
             ELSE LET value == ParseValue(Tail(key.rest))
                  IN  IF ~value.ok \/ value.rest = <<>> THEN NotParsed
                      ELSE IF Head(value.rest) = "}" THEN Parsed("dict", Tail(value.rest))
                      ELSE IF Head(value.rest) = ", " THEN ParseMembers(Tail(value.rest))
                      ELSE NotParsed

\* After "[" or ", " in an array: a value, then ", " or "]".
ParseElements(text) ==
    LET value == ParseValue(text)
    IN  IF ~value.ok \/ value.rest = <<>> THEN NotParsed
        ELSE IF Head(value.rest) = "]" THEN Parsed("list", Tail(value.rest))
        ELSE IF Head(value.rest) = ", " THEN ParseElements(Tail(value.rest))
        ELSE NotParsed

ParseValue(text) ==
    IF text = <<>> THEN NotParsed
    ELSE IF Head(text) = Quote THEN ParseChars(Tail(text))
    ELSE IF Head(text) = "{"
    THEN IF Len(text) >= 2 /\ text[2] = "}" THEN Parsed("dict", Tail(Tail(text)))
         ELSE ParseMembers(Tail(text))
    ELSE IF Head(text) = "["
    THEN IF Len(text) >= 2 /\ text[2] = "]" THEN Parsed("list", Tail(Tail(text)))
         ELSE ParseElements(Tail(text))
    ELSE IF Head(text) \in {"true", "false"} THEN Parsed("bool", Tail(text))
    ELSE IF Head(text) \in NumberAtoms THEN Parsed("int", Tail(text))
    ELSE NotParsed

\* json.loads: the type of the value the text denotes, or not ok
\* (json.JSONDecodeError) when the text is not one JSON value.
json_loads(text) ==
    LET value == ParseValue(text)
    IN  IF value.ok /\ value.rest = <<>> THEN value ELSE NotParsed

-----------------------------------------------------------------------------
(* Model.load and Model.save *)

\* identifier.replace(".env", "") for the identifiers of the model
EnvName(ident) ==
    CASE ident = "assets.env" -> "assets"
      [] ident = "__mock__.env" -> "__mock__"
      [] OTHER -> ident

\* hou.getenv(env_name, ""): the text stored under the name, or the empty text
getenv(store, env_name) == IF env_name \in DOMAIN store THEN store[env_name] ELSE <<>>

\* Model.load.  `ident` is the argument (None: self.identifier), `store` the
\* host's environment, `now` the clock reading populate_mock_data takes.
\* json.loads is given the stored text as it is, with the sentinels still in
\* it; and str.replace is then called on what json.loads returned.  A dict,
\* list, int or bool has no replace (AttributeError); a str has, but indexing
\* the result with "identifier" is a TypeError.  Lines 216-219 of the source
\* are reached by no text.
load(self, ident, store, now) ==
    LET id == IF ident = None THEN self.identifier ELSE ident
        data == getenv(store, EnvName(id))
    IN  IF id = "__mock__.env"
        THEN Returned(populate_mock_data(self, now), None)
        ELSE IF data = <<>>
        THEN Returned(self, None)
        ELSE IF ~json_loads(data).ok
        THEN Raised(self, "JSONDecodeError")
        ELSE IF json_loads(data).kind = "str"
        THEN Raised(self, "TypeError")
        ELSE Raised(self, "AttributeError")

\* Model.save: the text handed to the host's `setenv`, or TypeError from
\* json.dumps when an item holds bytes.
save(self, ident) ==
    IF \E k \in DOMAIN self.items : self.items[k].blind_data \in Bytes
    THEN Raised(self, "TypeError")
    ELSE Returned(self, None)

\* The environment after hou.hscript('setenv {env_name}="{data}"'): the host
\* stores the text between the quotes under the name.
setenv(store, self, ident) ==
    DictSet(store,
            EnvName(IF ident = None THEN self.identifier ELSE ident),
            Replace(json_dumps(self), Quote, Sentinel))

-----------------------------------------------------------------------------
(* The state machine *)

Self ==
    [identifier |-> identifier,
     items |-> items,
     items_updated |-> items_updated,
     items_deleted |-> items_deleted,
     tags |-> tags]

\* The values a call may pass for each attribute.
FieldValues(role) ==
    CASE role = "parent" -> {"", "a1"}
      [] role = "label" -> {"Foo", "6\" pipe"}
      [] role = "file_path" -> {"", "/some/path/0.usd"}
      [] role = "thumbnail_file_path" -> {"", "/some/path/0.png"}
      [] role = "modification_date" -> {0, 7}
      [] role = "meta_data" -> {EmptyDict, [keyA |-> "valueA", keyB |-> "valueB"]}
      [] role = "blind_data" -> {"b:", "b:x"}
      [] role = "tags" -> {<<>>, <<"red">>}
      [] role = "color" -> {"", "red"}
      [] role = "star" -> {FALSE, TRUE}

\* The attributes Model.set_data is called with directly: one of each type.
Roles == {"label", "tags", "star", "meta_data"}

\* The items add_item is called with.
NewItems ==
    {[Item(id) EXCEPT !.label = l, !.tags = t] :
        id \in ItemIds, l \in {"Foo"}, t \in {<<>>, <<"red", "Tag 1">>}}

Call(op, args) == [op |-> op, args |-> args]

\* A call ends: the object and the record of the call.
Commit(r, call, dirty) ==
    /\ steps < MaxSteps
    /\ steps' = steps + 1
    /\ identifier' = r.self.identifier
    /\ items' = r.self.items
    /\ items_updated' = r.self.items_updated
    /\ items_deleted' = r.self.items_deleted
    /\ tags' = r.self.tags
    /\ before' = Self
    /\ last' = [op |-> call.op, args |-> call.args, ret |-> r.ret, raised |-> r.raised]
    /\ prev' = last
    /\ polled' = dirty
    /\ UNCHANGED <<user_info, user_info_before>>

\* AssetLibrary.__init__: Model(source_identifier), then Model.load()
SourceIdentifiers == {"assets.env", "__mock__.env"}

InitCatalog ==
    /\ env = EmptyDict
    /\ \E source_identifier \in SourceIdentifiers, now \in Clock :
        LET m == IF source_identifier = "__mock__.env"
                 THEN populate_mock_data(ModelInit(source_identifier), now)
                 ELSE ModelInit(source_identifier)
        IN  /\ identifier = m.identifier
            /\ items = m.items
            /\ items_updated = m.items_updated
            /\ items_deleted = m.items_deleted
            /\ tags = m.tags
            /\ before = m
    /\ last = [op |-> "__init__", args |-> <<>>, ret |-> None, raised |-> ""]
    /\ prev = [op |-> "", args |-> <<>>, ret |-> None, raised |-> ""]
    /\ polled = {}
    /\ steps = 0

\* The data source on its own: the node's parameter holds "{}".
Init ==
    /\ InitCatalog
    /\ user_info = EmptyDict
    /\ user_info_before = EmptyDict

\* The enumerations of a finite set: the orders tuple(set) may come in.
Enumerations(S) ==
    {seq \in [1..Cardinality(S) -> S] : {seq[i] : i \in DOMAIN seq} = S}

Range(seq) == {seq[i] : i \in DOMAIN seq}

Call_add_tag ==
    \E tag \in TagNames :
        /\ Commit(add_tag(Self, tag), Call("add_tag", <<tag>>), polled)
        /\ UNCHANGED env

Call_delete_tag ==
    \E tag \in TagNames, delete_if_assigned \in BOOLEAN :
        /\ Commit(delete_tag(Self, tag, delete_if_assigned),
                  Call("delete_tag", <<tag, delete_if_assigned>>), polled)
        /\ UNCHANGED env

Call_add_item ==
    \E item \in NewItems :
        /\ Commit(add_item(Self, item), Call("add_item", <<item>>), polled)
        /\ UNCHANGED env

Call_set_data ==
    \E item_id \in ItemIds, role \in Roles :
        \E value \in FieldValues(role) :
            LET r == set_data(Self, item_id, role, value)
            IN  /\ Commit(r, Call("set_data", <<item_id, role, value>>),
                          IF r.raised = "" /\ r.ret THEN polled \cup {item_id} ELSE polled)
                /\ UNCHANGED env

Call_set_item_mark_deleted ==
    \E item_id \in ItemIds :
        /\ Commit(set_item_mark_deleted(Self, item_id),
                  Call("set_item_mark_deleted", <<item_id>>), polled)
        /\ UNCHANGED env

Call_set_item_mark_undeleted ==
    \E item_id \in ItemIds :
        /\ Commit(set_item_mark_undeleted(Self, item_id),
                  Call("set_item_mark_undeleted", <<item_id>>), polled)
        /\ UNCHANGED env

Call_get_item_updated_ids ==
    \E order \in Enumerations(items_updated) :
        /\ Commit(get_item_updated_ids(Self, order), Call("get_item_updated_ids", <<>>), {})
        /\ UNCHANGED env

\* Model.save(), as endTransaction(commit=True) calls it
Call_save ==
    LET r == save(Self, None)
    IN  /\ Commit(r, Call("save", <<None>>), polled)
        /\ env' = IF r.raised = "" THEN setenv(env, Self, None) ELSE env

\* A new AssetLibrary on the same source identifier: Model(identifier), then
\* Model.load().  `before` keeps the catalog that is given up.
Call_load ==
    \E now \in Clock :
        /\ Commit(load(ModelInit(identifier), None, env, now), Call("load", <<None>>), {})
        /\ UNCHANGED env

Next ==
    \/ Call_add_tag
    \/ Call_delete_tag
    \/ Call_add_item
    \/ Call_set_data
    \/ Call_set_item_mark_deleted
    \/ Call_set_item_mark_undeleted
    \/ Call_get_item_updated_ids
    \/ Call_save
    \/ Call_load

Spec == Init /\ [][Next]_vars

-----------------------------------------------------------------------------
(* class AssetLibrary: the methods the host calls, each on self.model *)

\* Python's order of the tag strings of the model (by code point: "I" < "T" < "r").
LexOrder ==
    [i \in 1..MockItemCount |-> "Item Tag " \o ToString(i - 1)]
    \o [i \in 1..MockTagCount |-> "Tag " \o ToString(i - 1)]
    \o <<"red">>

Rank(str) == CHOOSE i \in DOMAIN LexOrder : LexOrder[i] = str

\* sorted(list): the same elements, as often as they occur, in ascending order
Sorted(list) ==
    LET Below(t) == Cardinality({i \in DOMAIN list : Rank(list[i]) < Rank(t)})
        Count(t) == Cardinality({i \in DOMAIN list : list[i] = t})
    IN  [p \in 1..Len(list) |->
            CHOOSE t \in Range(list) : Below(t) < p /\ p <= Below(t) + Count(t)]

parentId(self, item_id) == get_data(self, item_id, "parent", None)
setParentId(self, item_id, parent_item_id) == set_data(self, item_id, "parent", parent_item_id)

filePath(self, item_id) == get_data(self, item_id, "file_path", None)

\* `self.model.set_data(item_id, "file_path")` passes two of set_data's three
\* arguments: the call raises TypeError before set_data runs.
setFilePath(self, item_id, file_path) == Raised(self, "TypeError")

label(self, item_id) == get_data(self, item_id, "label", None)
setLabel(self, item_id, value) == set_data(self, item_id, "label", value)

modificationDate(self, item_id) == get_data(self, item_id, "modification_date", None)
setModificationDate(self, item_id, timestamp) ==
    set_data(self, item_id, "modification_date", timestamp)

isStarred(self, item_id) == get_data(self, item_id, "star", None)
setIsStarred(self, item_id, isstarred) == set_data(self, item_id, "star", isstarred)

colorTag(self, item_id) == get_data(self, item_id, "color", None)
setColorTag(self, item_id, color_tag) == set_data(self, item_id, "color", color_tag)

metadata(self, item_id) == get_data(self, item_id, "meta_data", None)
setMetadata(self, item_id, value) == set_data(self, item_id, "meta_data", value)

blindData(self, item_id) == get_data(self, item_id, "blind_data", None)
setBlindData(self, item_id, data) == set_data(self, item_id, "blind_data", data)

\* AssetLibrary.addItem: the id of the new Item is its file path
addItem(self, item_label, file_path, thumbnail, blind_data, creation_date) ==
    add_item(self, [Item(file_path) EXCEPT !.label = item_label,
                                           !.file_path = file_path,
                                           !.thumbnail_file_content = thumbnail,
                                           !.blind_data = blind_data,
                                           !.creation_date = creation_date])

createTag(self, tag) == add_tag(self, tag)

\* AssetLibrary.tags: sorted(list(item_tags) + list(self.model.get_tags())).
\* For an id that is not live get_data gives None, and list(None) raises.
AssetLibrary_tags(self, item_id) ==
    IF item_id = ""
    THEN Returned(self, Sorted(get_tags(self)))
    ELSE IF item_id \notin DOMAIN self.items
    THEN Raised(self, "TypeError")
    ELSE Returned(self, Sorted(get_data(self, item_id, "tags", None).ret \o get_tags(self)))

\* AssetLibrary.itemIds
itemIds(self) == get_item_ids(self)

\* AssetLibrary.childItemIds
childItemIds(self, item_id) == get_data(self, item_id, "children", None)

\* AssetLibrary.creationDate
creationDate(self, item_id) == get_data(self, item_id, "creation_date", None)

\* AssetLibrary.thumbnail
thumbnail(self, item_id, file) == get_data(self, item_id, "thumbnail_file_content", file)

\* AssetLibrary.updatedItemIds
updatedItemIds(self, order) == get_item_updated_ids(self, order)

\* all(states)
All(states) == \A i \in DOMAIN states : states[i]

\* The loop of markItemsForDeletion: one set_item_mark_deleted per id of the
\* batch, each result appended to `states`.
RECURSIVE MarkEach(_, _)
MarkEach(self, item_ids) ==
    IF item_ids = <<>>
    THEN [self |-> self, states |-> <<>>]
    ELSE LET r == set_item_mark_deleted(self, Head(item_ids))
             rest == MarkEach(r.self, Tail(item_ids))
         IN  [self |-> rest.self, states |-> <<r.ret>> \o rest.states]

\* The loop of unmarkItemsForDeletion: one set_item_mark_undeleted per id.
RECURSIVE UnmarkEach(_, _)
UnmarkEach(self, item_ids) ==
    IF item_ids = <<>>
    THEN [self |-> self, states |-> <<>>]
    ELSE LET r == set_item_mark_undeleted(self, Head(item_ids))
             rest == UnmarkEach(r.self, Tail(item_ids))
         IN  [self |-> rest.self, states |-> <<r.ret>> \o rest.states]

\* A batch that gives up at the first id that cannot be moved.
markItemsForDeletion_short(self, item_ids) ==
    LET r == MarkEach(self, item_ids)
        failed == {i \in DOMAIN r.states : ~r.states[i]}
        done == IF failed = {} THEN item_ids
                ELSE SubSeq(item_ids, 1, (CHOOSE i \in failed : \A j \in failed : i <= j) - 1)
    IN  Returned(MarkEach(self, done).self, All(r.states))

\* AssetLibrary.markItemsForDeletion
markItemsForDeletion(self, item_ids) ==
    LET r == MarkEach(self, item_ids)
    IN  Returned(r.self, All(r.states))

\* AssetLibrary.unmarkItemsForDeletion
unmarkItemsForDeletion(self, item_ids) ==
    LET r == UnmarkEach(self, item_ids)
    IN  Returned(r.self, All(r.states))

\* AssetLibrary.deleteTag
deleteTag(self, tag, delete_if_assigned) == delete_tag(self, tag, delete_if_assigned)

\* AssetLibrary.addTag: get_data gives None for an id that is not live, and
\* `tag not in None` raises. The new list goes through set_data; the
\* vocabulary (Model.tags) is not touched.
addTag(self, item_id, tag) ==
    IF item_id \notin DOMAIN self.items
    THEN Raised(self, "TypeError")
    ELSE LET item_tags == get_data(self, item_id, "tags", None).ret
         IN  IF ~InList(tag, item_tags)
             THEN Returned(set_data(self, item_id, "tags", item_tags \o <<tag>>).self, TRUE)
             ELSE Returned(self, FALSE)

\* AssetLibrary.removeTag: get_data hands out the item's own list, so
\* tags.remove(tag) changes the item in place; the set_data that follows
\* compares that list with itself.
removeTag(self, item_id, tag) ==
    IF item_id \notin DOMAIN self.items
    THEN Raised(self, "TypeError")
    ELSE LET item_tags == get_data(self, item_id, "tags", None).ret
         IN  IF InList(tag, item_tags)
             THEN LET removed == [self EXCEPT !.items[item_id].tags = ListRemove(@, tag)]
                  IN  Returned(set_data(removed, item_id, "tags",
                                        removed.items[item_id].tags).self, TRUE)
             ELSE Returned(self, FALSE)

-----------------------------------------------------------------------------
(* The host calling the data source *)

\* A call of the host ends.
HostCommit(r, call, dirty) ==
    /\ steps < MaxHostCalls
    /\ steps' = steps + 1
    /\ identifier' = r.self.identifier
    /\ items' = r.self.items
    /\ items_updated' = r.self.items_updated
    /\ items_deleted' = r.self.items_deleted
    /\ tags' = r.self.tags
    /\ before' = Self
    /\ last' = [op |-> call.op, args |-> call.args, ret |-> r.ret, raised |-> r.raised]
    /\ prev' = last
    /\ polled' = dirty
    /\ UNCHANGED <<env, user_info, user_info_before>>

\* The history of set_data results after a setter on item_id ended with r.
AfterSetter(r, item_id) ==
    IF r.raised = "" /\ r.ret THEN polled \cup {item_id} ELSE polled

Host_addItem ==
    \E file_path \in ItemIds :
        HostCommit(addItem(Self, "Foo", file_path, "b:", "b:", 0),
                   Call("addItem", <<"Foo", file_path>>), polled)

Host_createTag ==
    \E tag \in TagNames :
        HostCommit(createTag(Self, tag), Call("createTag", <<tag>>), polled)

Host_tags ==
    \E item_id \in ItemIds \cup {""} :
        HostCommit(AssetLibrary_tags(Self, item_id), Call("tags", <<item_id>>), polled)

Host_setParentId ==
    \E item_id \in ItemIds, value \in FieldValues("parent") :
        LET r == setParentId(Self, item_id, value)
        IN  HostCommit(r, Call("setParentId", <<item_id, value>>), AfterSetter(r, item_id))

Host_setFilePath ==
    \E item_id \in ItemIds, value \in FieldValues("file_path") :
        LET r == setFilePath(Self, item_id, value)
        IN  HostCommit(r, Call("setFilePath", <<item_id, value>>), AfterSetter(r, item_id))

Host_setLabel ==
    \E item_id \in ItemIds, value \in FieldValues("label") :
        LET r == setLabel(Self, item_id, value)
        IN  HostCommit(r, Call("setLabel", <<item_id, value>>), AfterSetter(r, item_id))

Host_setModificationDate ==
    \E item_id \in ItemIds, value \in FieldValues("modification_date") :
        LET r == setModificationDate(Self, item_id, value)
        IN  HostCommit(r, Call("setModificationDate", <<item_id, value>>), AfterSetter(r, item_id))

Host_setIsStarred ==
    \E item_id \in ItemIds, value \in FieldValues("star") :
        LET r == setIsStarred(Self, item_id, value)
        IN  HostCommit(r, Call("setIsStarred", <<item_id, value>>), AfterSetter(r, item_id))

Host_setColorTag ==
    \E item_id \in ItemIds, value \in FieldValues("color") :
        LET r == setColorTag(Self, item_id, value)
        IN  HostCommit(r, Call("setColorTag", <<item_id, value>>), AfterSetter(r, item_id))

Host_setMetadata ==
    \E item_id \in ItemIds, value \in FieldValues("meta_data") :
        LET r == setMetadata(Self, item_id, value)
        IN  HostCommit(r, Call("setMetadata", <<item_id, value>>), AfterSetter(r, item_id))

Host_setBlindData ==
    \E item_id \in ItemIds, value \in FieldValues("blind_data") :
        LET r == setBlindData(Self, item_id, value)
        IN  HostCommit(r, Call("setBlindData", <<item_id, value>>), AfterSetter(r, item_id))

Host_parentId ==
    \E item_id \in ItemIds :
        HostCommit(parentId(Self, item_id), Call("parentId", <<item_id>>), polled)

Host_filePath ==
    \E item_id \in ItemIds :
        HostCommit(filePath(Self, item_id), Call("filePath", <<item_id>>), polled)

Host_label ==
    \E item_id \in ItemIds :
        HostCommit(label(Self, item_id), Call("label", <<item_id>>), polled)

Host_modificationDate ==
    \E item_id \in ItemIds :
        HostCommit(modificationDate(Self, item_id), Call("modificationDate", <<item_id>>), polled)

Host_isStarred ==
    \E item_id \in ItemIds :
        HostCommit(isStarred(Self, item_id), Call("isStarred", <<item_id>>), polled)

Host_colorTag ==
    \E item_id \in ItemIds :
        HostCommit(colorTag(Self, item_id), Call("colorTag", <<item_id>>), polled)

Host_metadata ==
    \E item_id \in ItemIds :
        HostCommit(metadata(Self, item_id), Call("metadata", <<item_id>>), polled)

Host_blindData ==
    \E item_id \in ItemIds :
        HostCommit(blindData(Self, item_id), Call("blindData", <<item_id>>), polled)

Host_itemIds ==
    HostCommit(Returned(Self, itemIds(Self)), Call("itemIds", <<>>), polled)

Host_childItemIds ==
    \E item_id \in ItemIds :
        HostCommit(childItemIds(Self, item_id), Call("childItemIds", <<item_id>>), polled)

Host_creationDate ==
    \E item_id \in ItemIds :
        HostCommit(creationDate(Self, item_id), Call("creationDate", <<item_id>>), polled)

\* The files a thumbnail path may point at: none, a text, a binary image.
ThumbnailFiles == {None, "<svg/>", Undecodable}

Host_thumbnail ==
    \E item_id \in ItemIds, file \in ThumbnailFiles :
        HostCommit(thumbnail(Self, item_id, file), Call("thumbnail", <<item_id>>), polled)

Host_updatedItemIds ==
    \E order \in Enumerations(items_updated) :
        HostCommit(updatedItemIds(Self, order), Call("updatedItemIds", <<>>), {})

Host_addTag ==
    \E item_id \in ItemIds, tag \in TagNames :
        LET r == addTag(Self, item_id, tag)
        IN  HostCommit(r, Call("addTag", <<item_id, tag>>), AfterSetter(r, item_id))

\* The set_data inside removeTag finds the value unchanged and returns False.
Host_removeTag ==
    \E item_id \in ItemIds, tag \in TagNames :
        HostCommit(removeTag(Self, item_id, tag), Call("removeTag", <<item_id, tag>>), polled)

HostNext ==
    \/ Host_addItem
    \/ Host_createTag
    \/ Host_tags
    \/ Host_setParentId
    \/ Host_setFilePath
    \/ Host_setLabel
    \/ Host_setModificationDate
    \/ Host_setIsStarred
    \/ Host_setColorTag
    \/ Host_setMetadata
    \/ Host_setBlindData
    \/ Host_parentId
    \/ Host_filePath
    \/ Host_label
    \/ Host_modificationDate
    \/ Host_isStarred
    \/ Host_colorTag
    \/ Host_metadata
    \/ Host_blindData
    \/ Host_itemIds
    \/ Host_childItemIds
    \/ Host_creationDate
    \/ Host_thumbnail
    \/ Host_updatedItemIds
    \/ Host_addTag
    \/ Host_removeTag

SpecAdapter == Init /\ [][HostNext]_vars

-----------------------------------------------------------------------------
(* The host reading the data source *)

\* Every read of the adapter, and calls that change what the reads see.
ReadNext ==
    \/ Host_itemIds
    \/ Host_parentId
    \/ Host_childItemIds
    \/ Host_filePath
    \/ Host_label
    \/ Host_tags
    \/ Host_creationDate
    \/ Host_modificationDate
    \/ Host_isStarred
    \/ Host_colorTag
    \/ Host_metadata
    \/ Host_blindData
    \/ Host_thumbnail
    \/ Host_updatedItemIds
    \/ Host_addItem
    \/ Host_setLabel
    \/ Host_addTag
    \/ Host_removeTag

SpecReads == Init /\ [][ReadNext]_vars

-----------------------------------------------------------------------------
(* The host deleting and restoring batches of items *)

\* The tuples of ids a batch call is made with.
Batches == UNION {[1..n -> ItemIds] : n \in 0..MaxBatch}

Host_markItemsForDeletion ==
    \E item_ids \in Batches :
        HostCommit(markItemsForDeletion(Self, item_ids),
                   Call("markItemsForDeletion", <<item_ids>>), polled)

Host_unmarkItemsForDeletion ==
    \E item_ids \in Batches :
        HostCommit(unmarkItemsForDeletion(Self, item_ids),
                   Call("unmarkItemsForDeletion", <<item_ids>>), polled)

BatchNext ==
    \/ Host_addItem
    \/ Host_markItemsForDeletion
    \/ Host_unmarkItemsForDeletion

SpecBatch == Init /\ [][BatchNext]_vars

-----------------------------------------------------------------------------
(* The drop field of the layout panel: AssetLibraryDropField *)

\* The two item descriptors that parseMimeData assigns to url_data after
\* the URLs have been read ("TODO Remove in production").
DebugDescriptors ==
    << [id |-> "id_9", label |-> "Item Label 9"],
       [id |-> "id_10",
        label |-> "Item Label 10",
        file_path |-> "/some/path/10.usd",
        thumbnail_file_path |-> "/some/path/10.png",
        creation_date |-> 0,
        modification_date |-> 0,
        meta_data |-> [keyA |-> "valueA", keyB |-> "valueB"],
        tags |-> <<"Tag 0", "Item Tag 10">>,
        color |-> "yellow",
        star |-> 0] >>

\* The keys of a descriptor, in the order the literal lists them.
DescriptorKeys ==
    <<"id", "label", "file_path", "thumbnail_file_path", "creation_date",
      "modification_date", "meta_data", "tags", "color", "star">>

\* json.dumps of the value under one key of a descriptor
DumpField(key, value) ==
    CASE key \in {"creation_date", "modification_date", "star"} -> DumpInt(value)
      [] key = "meta_data" -> DumpDict(value)
      [] key = "tags" -> DumpList(value)
      [] OTHER -> DumpStr(value)

\* json.dumps(item_data)
DumpDescriptor(item_data) ==
    <<"{">>
    \o Join([i \in DOMAIN Keys(item_data, DescriptorKeys) |->
                DumpStr(Keys(item_data, DescriptorKeys)[i]) \o <<": ">>
                \o DumpField(Keys(item_data, DescriptorKeys)[i],
                             item_data[Keys(item_data, DescriptorKeys)[i]])],
            ", ")
    \o <<"}">>

\* text.encode('ascii'): the bytes value that holds the characters of the text
RECURSIVE Encode(_)
Encode(text) == IF text = <<>> THEN "b:" ELSE Encode(SubSeq(text, 1, Len(text) - 1)) \o text[Len(text)]

\* The texts a drag carries: not JSON, JSON without the "vfxHoudini" key,
\* and the payload format {"vfxHoudini": {"assetLibrary": [...]}}.
MimeTexts ==
    { <<"hello">>,
      <<"{">> \o DumpStr("other") \o <<": ">> \o DumpStr("x") \o <<"}">>,
      <<"{">> \o DumpStr("vfxHoudini") \o <<": ", "{">> \o DumpStr("assetLibrary") \o <<": ", "[">>
          \o DumpDescriptor([id |-> "a1", label |-> "Foo"]) \o <<"]", "}", "}">> }

\* The QMimeData of a drag: hasText()/text() and hasUrls()/urls().
QMimeData ==
    {[hasText |-> FALSE, text |-> <<>>, urls |-> <<>>]}
    \cup {[hasText |-> TRUE, text |-> t, urls |-> <<>>] : t \in MimeTexts}
    \cup {[hasText |-> FALSE, text |-> <<>>, urls |-> <<"file:///some/path/0.usd">>]}

\* The end of a call of the drop field: what it returned or how the event
\* was answered, or the exception that ended it.
Answered(self, info, ret) == [self |-> self, user_info |-> info, ret |-> ret, raised |-> ""]
Failed(self, info, exc) == [self |-> self, user_info |-> info, ret |-> None, raised |-> exc]

\* parseMimeData.  Text: whatever json.loads gives, the lookup that follows
\* builds the set {"assetLibrary", []}, which raises TypeError (a list is
\* not hashable), and a text that is not JSON raises in json.loads; the bare
\* except turns both into [].  URLs: urls() gives QUrl objects, which have no
\* startswith, and the call is outside the try.  Then url_data is assigned
\* the two descriptors above.
parseMimeData(mime_data) ==
    LET text_data == IF mime_data.hasText
                     THEN IF json_loads(mime_data.text).ok THEN <<>> ELSE <<>>
                     ELSE <<>>
        url_data == DebugDescriptors
    IN  IF mime_data.urls # <<>>
        THEN [ret |-> None, raised |-> "AttributeError"]
        ELSE [ret |-> text_data \o url_data, raised |-> ""]

\* dragEnterEvent
dragEnterEvent(self, info, mime_data) ==
    LET data == parseMimeData(mime_data)
    IN  IF data.raised # "" THEN Failed(self, info, data.raised)
        ELSE IF data.ret # <<>> THEN Answered(self, info, "accept")
        ELSE Answered(self, info, "ignore")

\* "Update data source": item_ids is read once, then one addItem with an empty
\* label and the descriptor's JSON as blind data for each id not among them.
RECURSIVE AddDropped(_, _, _)
AddDropped(self, item_ids, data) ==
    IF data = <<>> THEN self
    ELSE IF Head(data).id \notin item_ids
    THEN AddDropped(addItem(self, "", None, "b:", Encode(DumpDescriptor(Head(data))), 0).self,
                    item_ids, Tail(data))
    ELSE AddDropped(self, item_ids, Tail(data))

\* working_set_items[key] = value that adds an entry also for a key the
\* dict holds
OdSet_append(od, key, value) == Append(od, <<key, value>>)

\* working_set_items[key] = value on a dict kept as the list of its
\* (key, value) pairs in insertion order
OdSet(od, key, value) ==
    IF \E i \in DOMAIN od : od[i][1] = key
    THEN [i \in DOMAIN od |-> IF od[i][1] = key THEN <<key, value>> ELSE od[i]]
    ELSE Append(od, <<key, value>>)

\* {i["id"]: i for i in working_set["items"]}
RECURSIVE DictOfItems(_)
DictOfItems(list) ==
    IF list = <<>> THEN <<>>
    ELSE OdSet(DictOfItems(SubSeq(list, 1, Len(list) - 1)),
               list[Len(list)].id, list[Len(list)])

\* The loop that overwrites the entry of every dropped id.
RECURSIVE CheckDropped(_, _)
CheckDropped(od, data) ==
    IF data = <<>> THEN od
    ELSE CheckDropped(OdSet(od, Head(data).id, [id |-> Head(data).id, isChecked |-> TRUE]),
                      Tail(data))

\* [v for k, v in working_set_items.items()]
DictValues(od) == [i \in DOMAIN od |-> od[i][2]]

\* dropEvent.  The calls that follow the update of the parameter refresh the
\* host's panels.
dropEvent(self, info, mime_data) ==
    LET data == parseMimeData(mime_data)
    IN  IF data.raised # "" THEN Failed(self, info, data.raised)
        ELSE IF data.ret # <<>>
        THEN LET working_set == IF "working_set" \in DOMAIN info
                                THEN info["working_set"]
                                ELSE [items |-> <<>>]
                 working_set_items ==
                     DictValues(CheckDropped(DictOfItems(working_set.items), data.ret))
             IN  Answered(AddDropped(self, itemIds(self), data.ret),
                          DictSet(info, "working_set",
                                  [working_set EXCEPT !.items = working_set_items]),
                          "accept")
        ELSE Answered(self, info, "ignore")

\* The values of the node's parameter when the panel opens: no working set
\* yet, an empty one, and one that holds an unchecked entry for a dropped id.
UserInfos ==
    { EmptyDict,
      DictSet(EmptyDict, "working_set", [items |-> <<>>]),
      DictSet(EmptyDict, "working_set",
              [items |-> << [id |-> "id_9", isChecked |-> FALSE],
                            [id |-> "id_3", isChecked |-> FALSE] >>]) }

\* LopLayoutPanel.__init__: the drop field and the shared data source
InitDrop ==
    /\ InitCatalog
    /\ user_info \in UserInfos
    /\ user_info_before = user_info

\* A call of the drop field ends.
DropCommit(r, call) ==
    /\ steps < MaxHostCalls
    /\ steps' = steps + 1
    /\ identifier' = r.self.identifier
    /\ items' = r.self.items
    /\ items_updated' = r.self.items_updated
    /\ items_deleted' = r.self.items_deleted
    /\ tags' = r.self.tags
    /\ user_info' = r.user_info
    /\ user_info_before' = user_info
    /\ before' = Self
    /\ last' = [op |-> call.op, args |-> call.args, ret |-> r.ret, raised |-> r.raised]
    /\ prev' = last
    /\ UNCHANGED <<env, polled>>

Drop_dragEnterEvent ==
    \E mime_data \in QMimeData :
        DropCommit(dragEnterEvent(Self, user_info, mime_data),
                   Call("dragEnterEvent", <<mime_data>>))

Drop_dropEvent ==
    \E mime_data \in QMimeData :
        DropCommit(dropEvent(Self, user_info, mime_data), Call("dropEvent", <<mime_data>>))

DropNext ==
    \/ Drop_dragEnterEvent
    \/ Drop_dropEvent
    \/ Host_addItem

SpecDrop == InitDrop /\ [][DropNext]_vars

-----------------------------------------------------------------------------
(* Properties of the Model class *)

\* Some live item of `self` has `tag` among its tags.
TagAssigned(self, tag) == \E k \in DOMAIN self.items : InList(tag, self.items[k].tags)

\* C1: set_data(id, field, value) returns False and changes nothing when the
\* id is not a live item or the value equals the field's current value;
\* otherwise it sets the field, adds the id to items_updated and returns True.
C1_SetData ==
    last.op = "set_data" =>
        LET item_id == last.args[1]
            role == last.args[2]
            value == last.args[3]
            noop == IF item_id \in DOMAIN before.items
                    THEN before.items[item_id][role] = value
                    ELSE TRUE
        IN  /\ last.raised = ""
            /\ IF noop
               THEN /\ last.ret = FALSE
                    /\ Self = before
               ELSE /\ last.ret = TRUE
                    /\ items = [before.items EXCEPT ![item_id][role] = value]
                    /\ items_updated = before.items_updated \cup {item_id}
                    /\ identifier = before.identifier
                    /\ items_deleted = before.items_deleted
                    /\ tags = before.tags

\* A set_data that changed a field of an item that was not dirty yet.
C1_Witness ==
    /\ last.op = "set_data"
    /\ last.raised = ""
    /\ last.ret = TRUE
    /\ last.args[1] \notin before.items_updated
    /\ last.args[1] \in items_updated
    /\ items[last.args[1]][last.args[2]] = last.args[3]

\* C2: no item id is in both the live mapping and the soft-deleted mapping.
C2_LiveDeletedDisjoint == (DOMAIN items) \cap (DOMAIN items_deleted) = {}

\* A step from the state after set_item_mark_deleted(id) by
\* set_item_mark_undeleted(id), for an id that was live before the first call.
C3_RoundTripStep ==
    (/\ last.op = "set_item_mark_deleted"
     /\ last'.op = "set_item_mark_undeleted"
     /\ last'.args = last.args
     /\ last.args[1] \in DOMAIN before.items)
    => (/\ last.raised = "" /\ last.ret = TRUE
        /\ last'.raised = "" /\ last'.ret = TRUE
        /\ last.args[1] \in DOMAIN items'
        /\ items'[last.args[1]] = before.items[last.args[1]])

C3_Refusals ==
    /\ (last.op = "set_item_mark_deleted" /\ last.args[1] \notin DOMAIN before.items)
        => (last.raised = "" /\ last.ret = FALSE /\ Self = before)
    /\ (last.op = "set_item_mark_undeleted" /\ last.args[1] \notin DOMAIN before.items_deleted)
        => (last.raised = "" /\ last.ret = FALSE /\ Self = before)

\* C3: for a live id, set_item_mark_deleted(id) followed by
\* set_item_mark_undeleted(id) both return True and leave the item live with
\* every field as before the two calls; set_item_mark_deleted on an id that
\* is not live and set_item_mark_undeleted on an id that is not soft-deleted
\* return False and change nothing.
C3_MarkUnmark == []C3_Refusals /\ [][C3_RoundTripStep]_vars

\* An item with fields off their defaults went through both calls.
C3_Witness ==
    /\ prev.op = "set_item_mark_deleted"
    /\ last.op = "set_item_mark_undeleted"
    /\ prev.args = last.args
    /\ prev.ret = TRUE
    /\ last.ret = TRUE
    /\ last.args[1] \in DOMAIN items
    /\ items[last.args[1]].label # ""

C4_Drained == last.op = "get_item_updated_ids" => items_updated = {}

C4_SecondPollStep ==
    (last.op = "get_item_updated_ids" /\ last'.op = "get_item_updated_ids")
        => last'.ret = <<>>

\* C4: right after get_item_updated_ids() the dirty set is empty, and a
\* second call with no call in between returns an empty result.
C4_PollEmpties == []C4_Drained /\ [][C4_SecondPollStep]_vars

\* A poll that reported an id, then a second poll.
C4_Witness ==
    /\ prev.op = "get_item_updated_ids"
    /\ prev.ret # <<>>
    /\ last.op = "get_item_updated_ids"

\* A poll returns the ids of the history, each once.
C5_PollStep ==
    last'.op = "get_item_updated_ids" =>
        /\ last'.raised = ""
        /\ Range(last'.ret) = polled
        /\ Len(last'.ret) = Cardinality(polled)

\* C5: get_item_updated_ids() returns exactly the ids for which a set_data
\* returned True since the previous poll, each once; an id reported by one
\* poll is not reported again by a later one without a new change.
C5_PollReportsChanges == [][C5_PollStep]_vars

\* Two fields of the mock item id_0 were changed, and one poll reported
\* the id once.
C5_Witness ==
    /\ identifier = "__mock__.env"
    /\ last.op = "get_item_updated_ids"
    /\ last.ret = <<"id_0">>
    /\ "id_0" \in DOMAIN items
    /\ items["id_0"].label = "Foo"
    /\ items["id_0"].star = FALSE

\* C6: delete_tag(tag, True) on a tag that some live item has removes the
\* tag from every item and from the vocabulary, and returns True.
C6_ForcedDelete ==
    (/\ last.op = "delete_tag"
     /\ last.args[2] = TRUE
     /\ TagAssigned(before, last.args[1]))
    => (/\ last.raised = ""
        /\ last.ret = TRUE
        /\ ~TagAssigned(Self, last.args[1])
        /\ ~InList(last.args[1], tags))

PersistedFields == Range(ItemFields) \ {"thumbnail_file_content"}

\* C9: save() followed by load() of the same identifier into a fresh catalog
\* gives the same live item ids, the same value for every persisted field of
\* every item and the same tag vocabulary.
C9_SaveLoadRoundTrip ==
    (/\ prev.op = "save"
     /\ prev.raised = ""
     /\ last.op = "load")
    => (/\ last.raised = ""
        /\ DOMAIN items = DOMAIN before.items
        /\ \A k \in DOMAIN before.items :
              \A f \in PersistedFields : items[k][f] = before.items[k][f]
        /\ tags = before.tags)

\* A list that holds no element twice.
NoDuplicates(list) == Len(list) = Cardinality(Range(list))

\* C16: add_tag(tag) appends the tag and returns True when it is not
\* registered, returns False without change when it is; in every state the
\* calls reach, the vocabulary holds no tag twice.
C16_AddTagUnique ==
    /\ NoDuplicates(tags)
    /\ last.op = "add_tag" =>
          /\ last.raised = ""
          /\ IF InList(last.args[1], before.tags)
             THEN last.ret = FALSE /\ Self = before
             ELSE /\ last.ret = TRUE
                  /\ tags = Append(before.tags, last.args[1])
                  /\ items = before.items
                  /\ items_updated = before.items_updated
                  /\ items_deleted = before.items_deleted

\* The same tag added twice: accepted, then refused.
C16_Witness ==
    /\ prev.op = "add_tag"
    /\ prev.ret = TRUE
    /\ last.op = "add_tag"
    /\ last.args = prev.args
    /\ last.ret = FALSE
    /\ InList(last.args[1], tags)

\* C18: after add_item(i) the item stored under i.id is i, whatever was
\* stored there before, every other item is as it was, every tag of i is in
\* the vocabulary, and the tags registered before keep their positions, the
\* new ones following them once each.
C18_AddItem ==
    last.op = "add_item" =>
        LET item == last.args[1]
        IN  /\ last.raised = ""
            /\ DOMAIN items = DOMAIN before.items \cup {item.id}
            /\ items[item.id] = item
            /\ \A id \in (DOMAIN before.items) \ {item.id} : items[id] = before.items[id]
            /\ \A i \in DOMAIN item.tags : InList(item.tags[i], tags)
            /\ Len(tags) >= Len(before.tags)
            /\ SubSeq(tags, 1, Len(before.tags)) = before.tags
            /\ Range(tags) = Range(before.tags) \cup Range(item.tags)
            /\ NoDuplicates(before.tags) => NoDuplicates(tags)

\* An item replaced by one with a registered tag and a tag that is new.
C18_Witness ==
    /\ last.op = "add_item"
    /\ last.args[1].id \in DOMAIN before.items
    /\ before.items[last.args[1].id] # last.args[1]
    /\ \E i, j \in DOMAIN last.args[1].tags :
          /\ InList(last.args[1].tags[i], before.tags)
          /\ ~InList(last.args[1].tags[j], before.tags)
    /\ Len(tags) = Len(before.tags) + 1

\* C19: after add_item(i), get_data(i.id, "label") returns i.label.
C19_LabelAfterAddItem ==
    last.op = "add_item" =>
        LET r == get_data(Self, last.args[1].id, "label", None)
        IN  /\ r.raised = ""
            /\ r.ret = last.args[1].label

\* The id held an item with another label before.
C19_Witness ==
    /\ last.op = "add_item"
    /\ last.args[1].id \in DOMAIN before.items
    /\ before.items[last.args[1].id].label # last.args[1].label
    /\ get_data(Self, last.args[1].id, "label", None).ret = "Foo"

-----------------------------------------------------------------------------
(* Properties of the AssetLibrary adapter *)

\* The elements of a set of tag strings, each once, in ascending order.
SortedSet(S) ==
    [p \in 1..Cardinality(S) |->
        CHOOSE t \in S : Cardinality({u \in S : Rank(u) < Rank(t)}) = p - 1]

\* C8: tags(item_id) returns the sorted union of the item's own tags and the
\* tag vocabulary, each tag string once.
C8_TagsSortedUnion ==
    (last.op = "tags" /\ last.args[1] \in DOMAIN before.items) =>
        /\ last.raised = ""
        /\ last.ret = SortedSet(Range(before.items[last.args[1]].tags) \cup Range(before.tags))

\* The field each setter of C10 is to write, and the getter that reads it.
SetterField ==
    [setLabel |-> "label", setFilePath |-> "file_path", setParentId |-> "parent",
     setIsStarred |-> "star", setColorTag |-> "color", setMetadata |-> "meta_data",
     setBlindData |-> "blind_data", setModificationDate |-> "modification_date"]

GetterOf ==
    [setLabel |-> "label", setFilePath |-> "filePath", setParentId |-> "parentId",
     setIsStarred |-> "isStarred", setColorTag |-> "colorTag", setMetadata |-> "metadata",
     setBlindData |-> "blindData", setModificationDate |-> "modificationDate"]

\* C10: for a live id, each setter returns True exactly when the value
\* changed and leaves the value in its field, and the paired getter called
\* next returns the value that was set.
C10_SetterGetterPairs ==
    /\ (last.op \in DOMAIN SetterField /\ last.args[1] \in DOMAIN before.items) =>
          /\ last.raised = ""
          /\ last.ret = (before.items[last.args[1]][SetterField[last.op]] # last.args[2])
          /\ items[last.args[1]][SetterField[last.op]] = last.args[2]
    /\ (/\ prev.op \in DOMAIN SetterField
        /\ last.op = GetterOf[prev.op]
        /\ last.args[1] = prev.args[1]
        /\ last.args[1] \in DOMAIN before.items) =>
          /\ prev.raised = ""
          /\ last.raised = ""
          /\ last.ret = prev.args[2]

-----------------------------------------------------------------------------
(* Properties of the AssetLibrary adapter *)

\* The adapter's getters of one attribute.
AdapterGetters ==
    {"parentId", "filePath", "label", "modificationDate", "isStarred", "colorTag",
     "metadata", "blindData"}

\* The adapter's calls that answer with a success flag for one item.
AdapterFlagged == DOMAIN SetterField \cup {"addTag", "removeTag"}

\* C11: a call of the adapter with an id that is not a live item does not
\* raise and leaves the object as it was; a getter returns None, and a
\* setter, addTag and removeTag return False.
C11_MissingIdNeverRaises ==
    (/\ last.op \in AdapterGetters \cup AdapterFlagged \cup {"tags"}
     /\ last.args[1] # ""
     /\ last.args[1] \notin DOMAIN before.items) =>
        /\ last.raised = ""
        /\ Self = before
        /\ (last.op \in AdapterGetters => last.ret = None)
        /\ (last.op \in AdapterFlagged => last.ret = FALSE)

\* C17: addTag(item_id, tag) on a live item that does not have the tag
\* returns True, assigns the tag and leaves it registered in the vocabulary;
\* on a live item that has the tag it returns False and changes nothing.
C17_AddTagRegisters ==
    (last.op = "addTag" /\ last.args[1] \in DOMAIN before.items) =>
        /\ last.raised = ""
        /\ IF InList(last.args[2], before.items[last.args[1]].tags)
           THEN last.ret = FALSE /\ Self = before
           ELSE /\ last.ret = TRUE
                /\ InList(last.args[2], items[last.args[1]].tags)
                /\ InList(last.args[2], tags)

\* C20: after a setter, addTag or removeTag that changed a field of a live
\* item, the item's id is in the dirty set.
C20_ChangesAreDirty ==
    (/\ last.op \in AdapterFlagged
     /\ last.args[1] \in DOMAIN before.items
     /\ last.args[1] \in DOMAIN items
     /\ items[last.args[1]] # before.items[last.args[1]]) =>
        last.args[1] \in items_updated

\* The attempt on the i-th id of a batch succeeds when the id is in the
\* mapping the call moves items out of and no earlier attempt moved it.
AttemptSucceeds(batch, i, source) ==
    /\ batch[i] \in DOMAIN source
    /\ \A j \in 1..(i - 1) : batch[j] # batch[i]

\* Every id of the batch that `source` held is now in `target` with the item
\* it had, and gone from `remaining`, which keeps every other item.
BatchMoved(batch, source, remaining, target) ==
    /\ \A id \in Range(batch) \cap DOMAIN source :
          /\ id \notin DOMAIN remaining
          /\ id \in DOMAIN target
          /\ target[id] = source[id]
    /\ \A id \in (DOMAIN source) \ Range(batch) :
          /\ id \in DOMAIN remaining
          /\ remaining[id] = source[id]

\* C12: markItemsForDeletion(ids) and unmarkItemsForDeletion(ids) attempt the
\* move for every id of the batch, also after an earlier id failed, and
\* return True exactly when every attempt succeeded; whatever the result,
\* the ids of the batch that the source mapping held have been moved.
C12_BatchAttemptsAll ==
    /\ last.op = "markItemsForDeletion" =>
          /\ last.raised = ""
          /\ last.ret = \A i \in DOMAIN last.args[1] :
                            AttemptSucceeds(last.args[1], i, before.items)
          /\ BatchMoved(last.args[1], before.items, items, items_deleted)
    /\ last.op = "unmarkItemsForDeletion" =>
          /\ last.raised = ""
          /\ last.ret = \A i \in DOMAIN last.args[1] :
                            AttemptSucceeds(last.args[1], i, before.items_deleted)
          /\ BatchMoved(last.args[1], before.items_deleted, items_deleted, items)

\* A batch whose first id failed and whose second id was moved all the same.
C12_Witness ==
    /\ last.op = "markItemsForDeletion"
    /\ Len(last.args[1]) = 2
    /\ last.args[1][1] \notin DOMAIN before.items
    /\ last.args[1][2] \in DOMAIN before.items
    /\ last.ret = FALSE
    /\ last.args[1][2] \in DOMAIN items_deleted
    /\ last.args[1][2] \notin DOMAIN items

\* The reads of the adapter that C21 lists.
AdapterReads ==
    AdapterGetters \cup {"itemIds", "childItemIds", "tags", "creationDate"}

\* The poll leaves everything but the dirty set as it was.
PollFrame ==
    last.op = "updatedItemIds" =>
        /\ identifier = before.identifier
        /\ items = before.items
        /\ items_deleted = before.items_deleted
        /\ tags = before.tags

\* The statement as claimed: of all reads of the adapter, thumbnail among
\* them, none but updatedItemIds changes anything.
C21_OnlyPollChanges ==
    /\ last.op \in AdapterReads \cup {"thumbnail"} => Self = before
    /\ PollFrame

\* C21: the listed reads of the adapter leave the live mapping, the
\* soft-deleted mapping, the vocabulary, the dirty set and every item field
\* as they were; updatedItemIds changes the dirty set only; thumbnail changes
\* at most the thumbnail_file_content of the item it was called for, to the
\* content it returns.
C21_ReadsFrame ==
    /\ last.op \in AdapterReads => Self = before
    /\ PollFrame
    /\ last.op = "thumbnail" =>
          \/ Self = before
          \/ /\ last.raised = ""
             /\ last.args[1] \in DOMAIN before.items
             /\ Self = [before EXCEPT
                           !.items[last.args[1]].thumbnail_file_content = last.ret]

\* A listed read of a live item, then a thumbnail read that cached the
\* file's content on the item.
C21_Witness ==
    /\ prev.op = "label"
    /\ prev.args[1] \in DOMAIN before.items
    /\ prev.ret = before.items[prev.args[1]].label
    /\ last.op = "thumbnail"
    /\ last.raised = ""
    /\ last.args[1] \in DOMAIN before.items
    /\ before.items[last.args[1]].thumbnail_file_content = "b:"
    /\ items[last.args[1]].thumbnail_file_content = "<svg/>"
    /\ last.ret = "<svg/>"

-----------------------------------------------------------------------------
(* Properties of the drop field *)

\* The descriptors the last event carried, as parseMimeData gives them.
Dropped == parseMimeData(last.args[1]).ret

\* The entries of the working set in a value of the node's parameter.
WorkingSetItems(info) ==
    IF "working_set" \in DOMAIN info THEN info["working_set"].items ELSE <<>>

\* C13: after a drop, every descriptor whose id was not among the item ids
\* is a live item under that id with the descriptor's label and fields, and
\* an id that was live holds the item it held.
C13_DropAddsVerbatim ==
    (last.op = "dropEvent" /\ last.raised = "" /\ last.ret = "accept") =>
        \A i \in DOMAIN Dropped :
            IF Dropped[i].id \in DOMAIN before.items
            THEN /\ Dropped[i].id \in DOMAIN items
                 /\ items[Dropped[i].id] = before.items[Dropped[i].id]
            ELSE /\ Dropped[i].id \in DOMAIN items
                 /\ \A key \in DOMAIN Dropped[i] :
                       items[Dropped[i].id][key] = Dropped[i][key]

\* Mime data that carries no payload: nothing, text that is not JSON, JSON
\* without the "vfxHoudini" key, and a URL of another scheme.
Malformed(mime_data) ==
    /\ mime_data.hasText =>
          mime_data.text \in {<<"hello">>,
                              <<"{">> \o DumpStr("other") \o <<": ">> \o DumpStr("x") \o <<"}">>}
    /\ \A i \in DOMAIN mime_data.urls : mime_data.urls[i] = "file:///some/path/0.usd"

\* C14: for mime data without a payload parseMimeData returns no descriptor,
\* dragEnterEvent and dropEvent ignore the event, and neither the catalog
\* nor the working set changes.
C14_MalformedIsEmpty ==
    (last.op \in {"dragEnterEvent", "dropEvent"} /\ Malformed(last.args[1])) =>
        /\ last.raised = ""
        /\ Dropped = <<>>
        /\ last.ret = "ignore"
        /\ Self = before
        /\ user_info = user_info_before

=============================================================================
